---- MODULE Spec2Model ----
(***************************************************************************)
(* Configuration instructions of the multisig program                      *)
(* (programs/multisig/src/instructions/multisig_config.rs).                *)
(*                                                                         *)
(* The state is one Multisig account (the Authorization Record), the       *)
(* length of its account data, and the marker source that config_updated   *)
(* copies into the record.  Every instruction is one atomic step: the      *)
(* handler works on the deserialized account and the account is written    *)
(* back only when the handler returns Ok.                                  *)
(* The global configuration record (program_config.rs) is a second account  *)
(* with its own instructions, explored by SpecGlobal.                      *)
(***************************************************************************)
EXTENDS Integers, Sequences, FiniteSets, TLC

VARIABLES multisig, data_len, current_marker, last, program_config, last_pc

\* the Multisig account, its storage and the record of the last call on it
multisig_vars == <<multisig, data_len, current_marker, last>>

\* the ProgramConfig account and the record of the last call on it
program_config_vars == <<program_config, last_pc>>

vars == <<multisig, data_len, current_marker, last, program_config, last_pc>>

(***************************************************************************)
(* Bounds of the model.                                                    *)
(***************************************************************************)
\* largest value the marker source reaches
MaxSlot == 1
\* Add Vault is explored while vault_index is below this value or at the
\* top of the u8 range
MaxVaultLow == 1
\* largest new_threshold argument tried
MaxThresholdArg == 4

(***************************************************************************)
(* Program constants.                                                      *)
(***************************************************************************)
\* vault_index is a u8
U8Max == 255
\* threshold is a u16; members.len() must fit in it
U16Max == 65535

\* Pubkey::default(): the value an unset config_authority holds
ZeroKey == "Zero"
\* identities that can authenticate (sign); nobody signs as ZeroKey
Signers == {"A", "B"}
\* identities that can be members
Keys == {"A", "B", "C"}
Permissions == {7}
TimeLocks == {0, 5}
NoAccount == "None"
RentPayers == {NoAccount, "Payer"}
SystemPrograms == {NoAccount, "System"}

Member(k, p) == [key |-> k, permissions |-> p]

RECURSIVE KeysOf(_)
KeysOf(ms) == IF ms = <<>> THEN {} ELSE {Head(ms).key} \cup KeysOf(Tail(ms))

\* position of the member with identity k, 0 when absent
RECURSIVE is_member_from(_, _, _)
is_member_from(ms, k, i) ==
    IF i > Len(ms) THEN 0
    ELSE IF ms[i].key = k THEN i
    ELSE is_member_from(ms, k, i + 1)

is_member(m, k) == is_member_from(m.members, k, 1)

\* Multisig::invariant
invariant(m) ==
    IF Len(m.members) > U16Max THEN "InvalidInvariant"
    ELSE IF \E i, j \in 1..Len(m.members) : i < j /\ m.members[i].key = m.members[j].key
        THEN "InvalidInvariant"
    ELSE IF m.threshold = 0 THEN "InvalidInvariant"
    ELSE IF m.threshold > Len(m.members) THEN "InvalidInvariant"
    ELSE "Ok"

\* Multisig::add_member
add_member(m, new_member) == [m EXCEPT !.members = Append(@, new_member)]

\* Multisig::remove_member
remove_member(m, old_member) ==
    LET i == is_member(m, old_member)
    IN  IF i = 0
        THEN [result |-> "MemberNotFound", multisig |-> m]
        ELSE [result |-> "Ok",
              multisig |-> [m EXCEPT !.members =
                               SubSeq(@, 1, i - 1) \o SubSeq(@, i + 1, Len(@))]]

\* Multisig::config_updated
config_updated(m) == [m EXCEPT !.last_config_change_marker = current_marker]

\* Multisig::realloc_if_needed; sizes are counted in members that fit
realloc_if_needed(len, members_length, rent_payer, system_program) ==
    IF len >= members_length
    THEN [result |-> "Ok", reallocated |-> FALSE, data_len |-> len]
    ELSE IF rent_payer = NoAccount
    THEN [result |-> "MissingFundingAccount", reallocated |-> FALSE, data_len |-> len]
    ELSE IF system_program = NoAccount
    THEN [result |-> "MissingSystemCollaborator", reallocated |-> FALSE, data_len |-> len]
    ELSE [result |-> "Ok", reallocated |-> TRUE, data_len |-> members_length]

\* validate without the key comparison: any signer passes the gate
validate_any_signer(config_authority, m) == "Ok"

\* validate that treats an unset config_authority as authorizing everybody
validate_unset_authorizes(config_authority, m) ==
    IF m.config_authority = ZeroKey \/ config_authority = m.config_authority
    THEN "Ok" ELSE "Unauthorized"

\* MultisigConfig::validate
validate(config_authority, m) ==
    IF config_authority = m.config_authority THEN "Ok" ELSE "Unauthorized"

\* u8 addition `a + b`: the sum when it fits, otherwise what the build
\* makes of the overflow (a panic with overflow checks, the wrapped value
\* without them)
u8_add(a, b) ==
    IF a + b <= U8Max
    THEN {[panic |-> FALSE, value |-> a + b]}
    ELSE {[panic |-> TRUE, value |-> 0],
          [panic |-> FALSE, value |-> (a + b) % (U8Max + 1)]}

(***************************************************************************)
(* Handlers.  Each yields the result, the account as the handler leaves it *)
(* and the account data length.                                            *)
(***************************************************************************)
Outcome(result, m, len, reallocated) ==
    [result |-> result, multisig |-> m, data_len |-> len, reallocated |-> reallocated]

Fail(result) == Outcome(result, multisig, data_len, FALSE)

\* Account::reload: the record is read again from the stored account, which
\* no statement of the handler has written yet
reload == multisig

\* add member with the result of invariant() dropped
multisig_add_member_body_unchecked(new_member, rent_payer, system_program) ==
    IF system_program = NoAccount THEN Fail("MissingAccount")
    ELSE IF rent_payer = NoAccount THEN Fail("MissingAccount")
    ELSE
      LET r  == realloc_if_needed(data_len, Len(multisig.members) + 1,
                                  rent_payer, system_program)
          m1 == add_member(multisig, new_member)
      IN  IF r.result # "Ok" THEN Fail(r.result)
          ELSE Outcome("Ok", config_updated(m1), r.data_len, r.reallocated)

\* add member that returns Ok without appending when the identity is present
multisig_add_member_body_idempotent(new_member, rent_payer, system_program) ==
    IF system_program = NoAccount THEN Fail("MissingAccount")
    ELSE IF rent_payer = NoAccount THEN Fail("MissingAccount")
    ELSE
      LET r  == realloc_if_needed(data_len, Len(multisig.members) + 1,
                                  rent_payer, system_program)
          m1 == IF is_member(multisig, new_member.key) # 0
                THEN multisig
                ELSE add_member(multisig, new_member)
      IN  IF r.result # "Ok" THEN Fail(r.result)
          ELSE IF invariant(m1) # "Ok" THEN Fail(invariant(m1))
          ELSE Outcome("Ok", config_updated(m1), r.data_len, r.reallocated)

\* add member that sizes the account for members.len() instead of + 1
multisig_add_member_body_short_realloc(new_member, rent_payer, system_program) ==
    IF system_program = NoAccount THEN Fail("MissingAccount")
    ELSE IF rent_payer = NoAccount THEN Fail("MissingAccount")
    ELSE
      LET r  == realloc_if_needed(data_len, Len(multisig.members),
                                  rent_payer, system_program)
          m0 == IF r.reallocated THEN reload ELSE multisig
          m1 == add_member(m0, new_member)
      IN  IF r.result # "Ok" THEN Fail(r.result)
          ELSE IF invariant(m1) # "Ok" THEN Fail(invariant(m1))
          ELSE Outcome("Ok", config_updated(m1), r.data_len, r.reallocated)

multisig_add_member_body(new_member, rent_payer, system_program) ==
    IF system_program = NoAccount THEN Fail("MissingAccount")
    ELSE IF rent_payer = NoAccount THEN Fail("MissingAccount")
    ELSE
      LET r  == realloc_if_needed(data_len, Len(multisig.members) + 1,
                                  rent_payer, system_program)
          m0 == IF r.reallocated THEN reload ELSE multisig
          m1 == add_member(m0, new_member)
      IN  IF r.result # "Ok" THEN Fail(r.result)
          ELSE IF invariant(m1) # "Ok" THEN Fail(invariant(m1))
          ELSE Outcome("Ok", config_updated(m1), r.data_len, r.reallocated)

\* remove member that assigns threshold = members.len() unconditionally
multisig_remove_member_body_always_clamp(old_member) ==
    IF ~(Len(multisig.members) > 1) THEN Fail("RemoveLastMember")
    ELSE
      LET r  == remove_member(multisig, old_member)
          m1 == r.multisig
          m2 == [m1 EXCEPT !.threshold = Len(m1.members)]
      IN  IF r.result # "Ok" THEN Fail(r.result)
          ELSE IF invariant(m2) # "Ok" THEN Fail(invariant(m2))
          ELSE Outcome("Ok", config_updated(m2), data_len, FALSE)

\* remove member without the require!(members.len() > 1)
multisig_remove_member_body_no_last_check(old_member) ==
    LET r  == remove_member(multisig, old_member)
        m1 == r.multisig
        m2 == IF m1.threshold > Len(m1.members)
              THEN [m1 EXCEPT !.threshold = Len(m1.members)]
              ELSE m1
    IN  IF r.result # "Ok" THEN Fail(r.result)
        ELSE IF invariant(m2) # "Ok" THEN Fail(invariant(m2))
        ELSE Outcome("Ok", config_updated(m2), data_len, FALSE)

\* remove member that looks the member up before the last-member check
multisig_remove_member_body_lookup_first(old_member) ==
    LET r  == remove_member(multisig, old_member)
        m1 == r.multisig
        m2 == IF m1.threshold > Len(m1.members)
              THEN [m1 EXCEPT !.threshold = Len(m1.members)]
              ELSE m1
    IN  IF r.result # "Ok" THEN Fail(r.result)
        ELSE IF ~(Len(multisig.members) > 1) THEN Fail("RemoveLastMember")
        ELSE IF invariant(m2) # "Ok" THEN Fail(invariant(m2))
        ELSE Outcome("Ok", config_updated(m2), data_len, FALSE)

multisig_remove_member_body(old_member) ==
    IF ~(Len(multisig.members) > 1) THEN Fail("RemoveLastMember")
    ELSE
      LET r  == remove_member(multisig, old_member)
          m1 == r.multisig
          m2 == IF m1.threshold > Len(m1.members)
                THEN [m1 EXCEPT !.threshold = Len(m1.members)]
                ELSE m1
      IN  IF r.result # "Ok" THEN Fail(r.result)
          ELSE IF invariant(m2) # "Ok" THEN Fail(invariant(m2))
          ELSE Outcome("Ok", config_updated(m2), data_len, FALSE)

\* change threshold with the result of invariant() dropped
multisig_change_threshold_body_unchecked(new_threshold) ==
    LET m1 == [multisig EXCEPT !.threshold = new_threshold]
    IN  Outcome("Ok", config_updated(m1), data_len, FALSE)

\* change threshold that lowers an excessive request to members.len()
multisig_change_threshold_body_clamping(new_threshold) ==
    LET m1 == [multisig EXCEPT !.threshold =
                  IF new_threshold > Len(multisig.members)
                  THEN Len(multisig.members) ELSE new_threshold]
    IN  IF invariant(m1) # "Ok" THEN Fail(invariant(m1))
        ELSE Outcome("Ok", config_updated(m1), data_len, FALSE)

multisig_change_threshold_body(new_threshold) ==
    LET m1 == [multisig EXCEPT !.threshold = new_threshold]
    IN  IF invariant(m1) # "Ok" THEN Fail(invariant(m1))
        ELSE Outcome("Ok", config_updated(m1), data_len, FALSE)

\* set time lock without the call of config_updated
multisig_set_time_lock_body_no_notification(time_lock) ==
    LET m1 == [multisig EXCEPT !.time_lock = time_lock]
    IN  IF invariant(m1) # "Ok" THEN Fail(invariant(m1))
        ELSE Outcome("Ok", m1, data_len, FALSE)

\* set time lock that rejects every non-zero delay
multisig_set_time_lock_body_bounded(time_lock) ==
    LET m1 == [multisig EXCEPT !.time_lock = time_lock]
    IN  IF time_lock > 0 THEN Fail("InvalidInvariant")
        ELSE IF invariant(m1) # "Ok" THEN Fail(invariant(m1))
        ELSE Outcome("Ok", config_updated(m1), data_len, FALSE)

multisig_set_time_lock_body(time_lock) ==
    LET m1 == [multisig EXCEPT !.time_lock = time_lock]
    IN  IF invariant(m1) # "Ok" THEN Fail(invariant(m1))
        ELSE Outcome("Ok", config_updated(m1), data_len, FALSE)

\* set config authority that refuses Pubkey::default()
multisig_set_config_authority_body_rejects_default(config_authority) ==
    LET m1 == [multisig EXCEPT !.config_authority = config_authority]
    IN  IF config_authority = ZeroKey THEN Fail("InvalidInvariant")
        ELSE IF invariant(m1) # "Ok" THEN Fail(invariant(m1))
        ELSE Outcome("Ok", config_updated(m1), data_len, FALSE)

multisig_set_config_authority_body(config_authority) ==
    LET m1 == [multisig EXCEPT !.config_authority = config_authority]
    IN  IF invariant(m1) # "Ok" THEN Fail(invariant(m1))
        ELSE Outcome("Ok", config_updated(m1), data_len, FALSE)

\* add vault that also calls config_updated
multisig_add_vault_body_notifying(vault_index, next) ==
    IF next.panic THEN Fail("Panic")
    ELSE IF ~(vault_index = next.value) THEN Fail("InvalidVaultIndex")
    ELSE
      LET m1 == [multisig EXCEPT !.vault_index = vault_index]
      IN  IF invariant(m1) # "Ok" THEN Fail(invariant(m1))
          ELSE Outcome("Ok", config_updated(m1), data_len, FALSE)

\* `next` is one of the values `multisig.vault_index + 1` can evaluate to
multisig_add_vault_body(vault_index, next) ==
    IF next.panic THEN Fail("Panic")
    ELSE IF ~(vault_index = next.value) THEN Fail("InvalidVaultIndex")
    ELSE
      LET m1 == [multisig EXCEPT !.vault_index = vault_index]
      IN  IF invariant(m1) # "Ok" THEN Fail(invariant(m1))
          ELSE Outcome("Ok", m1, data_len, FALSE)

\* #[access_control(ctx.accounts.validate())]: the gate runs before the body
access_control(caller, body) ==
    IF validate(caller, multisig) # "Ok"
    THEN Fail(validate(caller, multisig))
    ELSE body

\* the value of `last` while no instruction is in progress
NoCall ==
    [op |-> "none", caller |-> ZeroKey, arg |-> 0,
     rent_payer |-> NoAccount, system_program |-> NoAccount,
     result |-> "Ok", reallocated |-> FALSE,
     pre |-> [config_authority |-> ZeroKey, threshold |-> 0, time_lock |-> 0,
              vault_index |-> 0, members |-> <<>>,
              last_config_change_marker |-> 0],
     pre_len |-> 0, marker |-> 0]

\* The account and its data are written back only when the handler
\* returned Ok; `last` records the call and the state it started from.
\* Instructions on one record are serialized: the next one starts after the
\* result of the previous one has been delivered.
Commit(op, caller, arg, rent_payer, system_program, out) ==
    /\ last = NoCall
    /\ multisig' = IF out.result = "Ok" THEN out.multisig ELSE multisig
    /\ data_len' = IF out.result = "Ok" THEN out.data_len ELSE data_len
    /\ last' = [op |-> op, caller |-> caller, arg |-> arg,
                rent_payer |-> rent_payer, system_program |-> system_program,
                result |-> out.result, reallocated |-> out.reallocated,
                pre |-> multisig, pre_len |-> data_len,
                marker |-> current_marker]
    /\ UNCHANGED <<current_marker, program_config_vars>>

multisig_add_member(caller, new_member, rent_payer, system_program) ==
    Commit("add_member", caller, new_member, rent_payer, system_program,
           access_control(caller,
               multisig_add_member_body(new_member, rent_payer, system_program)))

multisig_remove_member(caller, old_member) ==
    Commit("remove_member", caller, old_member, NoAccount, NoAccount,
           access_control(caller, multisig_remove_member_body(old_member)))

multisig_change_threshold(caller, new_threshold) ==
    Commit("change_threshold", caller, new_threshold, NoAccount, NoAccount,
           access_control(caller, multisig_change_threshold_body(new_threshold)))

multisig_set_time_lock(caller, time_lock) ==
    Commit("set_time_lock", caller, time_lock, NoAccount, NoAccount,
           access_control(caller, multisig_set_time_lock_body(time_lock)))

multisig_set_config_authority(caller, config_authority) ==
    Commit("set_config_authority", caller, config_authority, NoAccount, NoAccount,
           access_control(caller, multisig_set_config_authority_body(config_authority)))

multisig_add_vault(caller, vault_index, next) ==
    Commit("add_vault", caller, vault_index, NoAccount, NoAccount,
           access_control(caller, multisig_add_vault_body(vault_index, next)))

(***************************************************************************)
(* Global configuration instructions                                       *)
(* (programs/squads_multisig_program/src/instructions/program_config.rs).  *)
(***************************************************************************)
\* values tried for new_multisig_creation_fee (a u64)
CreationFees == {0, 1000}

\* ProgramConfig::validate accepting any signer
program_config_validate_any_signer(authority, pc) == "Ok"

\* ProgramConfig::validate
program_config_validate(authority, pc) ==
    IF pc.authority = authority THEN "Ok" ELSE "Unauthorized"

PcOutcome(result, pc) == [result |-> result, program_config |-> pc]

program_config_set_authority_body(new_authority) ==
    PcOutcome("Ok", [program_config EXCEPT !.authority = new_authority])

program_config_set_multisig_creation_fee_body(new_multisig_creation_fee) ==
    PcOutcome("Ok", [program_config EXCEPT
                        !.multisig_creation_fee = new_multisig_creation_fee])

\* set treasury that also hands the authority to the new treasury
program_config_set_treasury_body_takes_authority(new_treasury) ==
    PcOutcome("Ok", [program_config EXCEPT !.treasury = new_treasury,
                                           !.authority = new_treasury])

program_config_set_treasury_body(new_treasury) ==
    PcOutcome("Ok", [program_config EXCEPT !.treasury = new_treasury])

\* #[access_control(ctx.accounts.validate())] of the ProgramConfig handlers
program_config_access_control(caller, body) ==
    IF program_config_validate(caller, program_config) # "Ok"
    THEN PcOutcome(program_config_validate(caller, program_config), program_config)
    ELSE body

\* The account is written back only when the handler returned Ok.
CommitProgramConfig(op, caller, arg, out) ==
    /\ program_config' = IF out.result = "Ok" THEN out.program_config
                         ELSE program_config
    /\ last_pc' = [op |-> op, caller |-> caller, arg |-> arg,
                   result |-> out.result, pre |-> program_config]
    /\ UNCHANGED multisig_vars

program_config_set_authority(caller, new_authority) ==
    CommitProgramConfig("set_authority", caller, new_authority,
        program_config_access_control(caller,
            program_config_set_authority_body(new_authority)))

program_config_set_multisig_creation_fee(caller, new_multisig_creation_fee) ==
    CommitProgramConfig("set_multisig_creation_fee", caller, new_multisig_creation_fee,
        program_config_access_control(caller,
            program_config_set_multisig_creation_fee_body(new_multisig_creation_fee)))

program_config_set_treasury(caller, new_treasury) ==
    CommitProgramConfig("set_treasury", caller, new_treasury,
        program_config_access_control(caller,
            program_config_set_treasury_body(new_treasury)))

(***************************************************************************)
(* Initial states: a well-formed record as multisig_create leaves it or as *)
(* earlier configuration left it.                                          *)
(***************************************************************************)
InitMembers ==
    { <<Member("A", 7)>>, <<Member("A", 7), Member("B", 7), Member("C", 7)>> }

InitVaultIndexes == {0, U8Max - 1}

NoCallPc ==
    [op |-> "none", caller |-> ZeroKey, arg |-> ZeroKey, result |-> "Ok",
     pre |-> [authority |-> ZeroKey, multisig_creation_fee |-> 0,
              treasury |-> ZeroKey]]

\* the ProgramConfig account as deployed
InitProgramConfig ==
    [authority |-> "A", multisig_creation_fee |-> 0, treasury |-> "C"]

Init ==
    /\ program_config = InitProgramConfig
    /\ last_pc = NoCallPc
    /\ \E ms \in InitMembers, vi \in InitVaultIndexes, extra \in {0, 1} :
          /\ Len(ms) + extra <= Cardinality(Keys)
          /\ multisig = [config_authority |-> "A",
                         threshold |-> IF Len(ms) = 1 THEN 1 ELSE 2,
                         time_lock |-> 0,
                         vault_index |-> vi,
                         members |-> ms,
                         last_config_change_marker |-> 0]
          /\ data_len = Len(ms) + extra
    /\ current_marker = 0
    /\ last = NoCall

(***************************************************************************)
(* Actions.                                                                *)
(***************************************************************************)
AddMember ==
    \E caller \in Signers, k \in Keys, p \in Permissions,
       rent_payer \in RentPayers, system_program \in SystemPrograms :
        multisig_add_member(caller, Member(k, p), rent_payer, system_program)

RemoveMember ==
    \E caller \in Signers, k \in Keys : multisig_remove_member(caller, k)

ChangeThreshold ==
    \E caller \in Signers, t \in 0..MaxThresholdArg :
        multisig_change_threshold(caller, t)

SetTimeLock ==
    \E caller \in Signers, t \in TimeLocks : multisig_set_time_lock(caller, t)

SetConfigAuthority ==
    \E caller \in Signers, a \in Signers \cup {ZeroKey} :
        multisig_set_config_authority(caller, a)

AddVault ==
    /\ multisig.vault_index < MaxVaultLow \/ multisig.vault_index >= U8Max - 1
    /\ \E caller \in Signers,
          vi \in {0, multisig.vault_index,
                  (multisig.vault_index + 1) % (U8Max + 1),
                  (multisig.vault_index + 2) % (U8Max + 1)},
          next \in u8_add(multisig.vault_index, 1) :
        multisig_add_vault(caller, vi, next)

\* the marker source advances (a transaction is created, a slot passes)
AdvanceMarker ==
    /\ current_marker < MaxSlot
    /\ current_marker' = current_marker + 1
    /\ UNCHANGED <<multisig, data_len, last, program_config_vars>>

\* the result of the instruction has been delivered to its caller
Complete ==
    /\ last # NoCall
    /\ last' = NoCall
    /\ UNCHANGED <<multisig, data_len, current_marker, program_config_vars>>

Next ==
    \/ AddMember
    \/ RemoveMember
    \/ ChangeThreshold
    \/ SetTimeLock
    \/ SetConfigAuthority
    \/ AddVault
    \/ AdvanceMarker
    \/ Complete

Spec == Init /\ [][Next]_vars

(***************************************************************************)
(* The global configuration record on its own: the Multisig account is     *)
(* not touched by these instructions.                                      *)
(***************************************************************************)
InitGlobal ==
    /\ program_config = InitProgramConfig
    /\ last_pc = NoCallPc
    /\ multisig = [config_authority |-> "A", threshold |-> 1, time_lock |-> 0,
                   vault_index |-> 0, members |-> <<Member("A", 7)>>,
                   last_config_change_marker |-> 0]
    /\ data_len = 1
    /\ current_marker = 0
    /\ last = NoCall

ProgramConfigSetAuthority ==
    \E caller \in Signers, a \in Signers \cup {ZeroKey} :
        program_config_set_authority(caller, a)

ProgramConfigSetMultisigCreationFee ==
    \E caller \in Signers, f \in CreationFees :
        program_config_set_multisig_creation_fee(caller, f)

ProgramConfigSetTreasury ==
    \E caller \in Signers, t \in Keys :
        program_config_set_treasury(caller, t)

NextGlobal ==
    \/ ProgramConfigSetAuthority
    \/ ProgramConfigSetMultisigCreationFee
    \/ ProgramConfigSetTreasury

SpecGlobal == InitGlobal /\ [][NextGlobal]_vars

(***************************************************************************)
(* Vocabulary of the properties.  `last` describes the most recent call:   *)
(* last.pre is the record it started from, multisig the record it left.    *)
(***************************************************************************)
ConfigOps ==
    {"add_member", "remove_member", "change_threshold", "set_time_lock",
     "set_config_authority", "add_vault"}

Called(op) == last.op = op

Authorized == last.caller = last.pre.config_authority

Succeeded == last.result = "Ok"

RecordUnchanged == multisig = last.pre /\ data_len = last.pre_len

NoDuplicates(ms) == Cardinality(KeysOf(ms)) = Len(ms)

WellFormed(m) ==
    /\ 1 <= m.threshold
    /\ m.threshold <= Len(m.members)
    /\ NoDuplicates(m.members)

Min(a, b) == IF a < b THEN a ELSE b

Without(ms, k) == SelectSeq(ms, LAMBDA x : x.key # k)

\* C1: every committed state of a record that starts well-formed satisfies
\* 1 <= threshold <= members.length and has no duplicate member identities.
C1_CommittedWellFormed == WellFormed(multisig)

\* a removal that had to lower the threshold has been committed
C1_Witness ==
    /\ Called("remove_member") /\ Succeeded
    /\ last.pre.threshold > Len(multisig.members)

\* C2: a configuration operation whose caller is not the record's
\* config_authority fails with Unauthorized and leaves every field of the
\* record unchanged, whatever the operation and its arguments.
C2_UnauthorizedRejected ==
    (last.op \in ConfigOps /\ ~Authorized)
        => (last.result = "Unauthorized" /\ RecordUnchanged)

\* a stranger asked to change the threshold to a value the record allows
C2_Witness ==
    /\ Called("change_threshold") /\ ~Authorized
    /\ last.pre.config_authority # ZeroKey
    /\ last.arg >= 1 /\ last.arg <= Len(last.pre.members)
    /\ last.arg # last.pre.threshold

\* C3: a successful Remove Member acts on a record with at least two
\* members, removes exactly the named identity and leaves
\* threshold = min(old threshold, new member count).
C3_RemoveClampsThreshold ==
    (Called("remove_member") /\ Succeeded)
        => /\ Len(last.pre.members) >= 2
           /\ last.arg \in KeysOf(last.pre.members)
           /\ multisig.members = Without(last.pre.members, last.arg)
           /\ Len(multisig.members) = Len(last.pre.members) - 1
           /\ multisig.threshold = Min(last.pre.threshold, Len(multisig.members))

\* members=[A,C], threshold=2: removing C left members=[A], threshold=1
C3_Witness ==
    /\ Called("remove_member") /\ Succeeded
    /\ Len(last.pre.members) = 2 /\ last.pre.threshold = 2
    /\ multisig.threshold = 1

\* C4 as stated: on a record with exactly one member every Remove Member
\* attempt fails with RemoveLastMember, whoever the caller is.
C4_AsStated ==
    (Called("remove_member") /\ Len(last.pre.members) = 1)
        => last.result = "RemoveLastMember"

\* C4 amended: on a record with exactly one member every Remove Member
\* attempt fails and changes nothing; the error is RemoveLastMember when the
\* caller is the config_authority and Unauthorized otherwise.
C4_LastMemberNeverRemoved ==
    (Called("remove_member") /\ Len(last.pre.members) = 1)
        => /\ last.result = (IF Authorized THEN "RemoveLastMember" ELSE "Unauthorized")
           /\ RecordUnchanged

\* the authority asked to remove the only member
C4_Witness ==
    /\ Called("remove_member") /\ Len(last.pre.members) = 1
    /\ Authorized /\ last.arg \in KeysOf(last.pre.members)

\* C5: an authorized Add Vault succeeds exactly when the supplied index is
\* vault_index + 1 and then stores it; any other index fails with
\* InvalidVaultIndex and leaves vault_index alone.
C5_AddVaultSequential ==
    (Called("add_vault") /\ Authorized)
        => IF last.arg = last.pre.vault_index + 1
           THEN Succeeded /\ multisig.vault_index = last.arg
           ELSE last.result = "InvalidVaultIndex"
                /\ multisig.vault_index = last.pre.vault_index

\* C6: a configuration operation that fails for another reason than the
\* authorization gate leaves the record and its storage as they were, also
\* where the handler wrote the field before the invariant check.
C6_FailureLeavesRecord ==
    /\ (last.op \in ConfigOps /\ ~Succeeded) => RecordUnchanged
    /\ (Called("change_threshold") /\ Authorized
          /\ (last.arg = 0 \/ last.arg > Len(last.pre.members)))
        => (last.result = "InvalidInvariant" /\ RecordUnchanged)
    /\ (Called("add_member") /\ Authorized
          /\ (\/ last.arg.key \in KeysOf(last.pre.members)
              \/ last.rent_payer = NoAccount
              \/ last.system_program = NoAccount))
        => (last.result \in {"InvalidInvariant", "MissingAccount"} /\ RecordUnchanged)
    /\ (Called("remove_member") /\ Authorized
          /\ (\/ Len(last.pre.members) = 1
              \/ last.arg \notin KeysOf(last.pre.members)))
        => (last.result \in {"RemoveLastMember", "MemberNotFound"} /\ RecordUnchanged)
    /\ (Called("add_vault") /\ last.result = "InvalidVaultIndex") => RecordUnchanged

\* a duplicate add on a full account: storage grew, then the invariant failed
C6_Witness ==
    /\ Called("add_member") /\ Authorized
    /\ last.result = "InvalidInvariant"
    /\ last.pre_len = Len(last.pre.members)

\* C7 as stated: with config_authority unset every direct configuration
\* operation fails with MissingAuthority.
C7_AsStated ==
    (last.op \in ConfigOps /\ last.pre.config_authority = ZeroKey)
        => last.result = "MissingAuthority"

\* C7 amended: with config_authority unset every direct configuration
\* operation fails, for every caller, with Unauthorized, and changes nothing.
C7_UncontrolledRejectsAll ==
    (last.op \in ConfigOps /\ last.pre.config_authority = ZeroKey)
        => (last.result = "Unauthorized" /\ RecordUnchanged)

\* an operation was attempted on a record whose authority is unset
C7_Witness ==
    /\ Called("set_config_authority")
    /\ last.pre.config_authority = ZeroKey
    /\ last.arg = last.caller

\* C8: an authorized Change Threshold succeeds and stores new_threshold
\* exactly when 1 <= new_threshold <= members.length; otherwise it fails with
\* InvalidInvariant and the threshold keeps its value.
C8_ThresholdBounds ==
    (Called("change_threshold") /\ Authorized)
        => IF 1 <= last.arg /\ last.arg <= Len(last.pre.members)
           THEN Succeeded /\ multisig.threshold = last.arg
           ELSE last.result = "InvalidInvariant"
                /\ multisig.threshold = last.pre.threshold

\* the authority asked for a threshold above the member count
C8_Witness ==
    /\ Called("change_threshold") /\ Authorized
    /\ last.arg > Len(last.pre.members)
    /\ last.result = "InvalidInvariant"

\* C9: an authorized Add Member of an identity already present fails and
\* leaves the member list unchanged; of an absent identity, with rent payer
\* and system program supplied, it appends exactly that member.
C9_AddMember ==
    (Called("add_member") /\ Authorized)
        => /\ last.arg.key \in KeysOf(last.pre.members)
                => (~Succeeded /\ multisig.members = last.pre.members)
           /\ (/\ last.arg.key \notin KeysOf(last.pre.members)
               /\ last.rent_payer # NoAccount
               /\ last.system_program # NoAccount)
                => /\ Succeeded
                   /\ multisig.members = Append(last.pre.members, last.arg)
                   /\ Len(multisig.members) = Len(last.pre.members) + 1

\* the authority added an identity that was already a member, resources supplied
C9_Witness ==
    /\ Called("add_member") /\ Authorized
    /\ last.arg.key \in KeysOf(last.pre.members)
    /\ last.rent_payer # NoAccount /\ last.system_program # NoAccount
    /\ ~Succeeded

\* C10: when the account already has room for members.length + 1, an
\* authorized Add Member of a new identity succeeds even without a rent
\* payer and without a system program.
C10_NoGrowthNeedsNoPayer ==
    (/\ Called("add_member") /\ Authorized
     /\ last.arg.key \notin KeysOf(last.pre.members)
     /\ last.pre_len >= Len(last.pre.members) + 1)
        => Succeeded

\* the operations that end with Change Notification
NotifyingOps ==
    {"add_member", "remove_member", "change_threshold", "set_time_lock",
     "set_config_authority"}

\* C11: every successful Add Member, Remove Member, Change Threshold, Set
\* Time-Lock and Set Config Authority sets last_config_change_marker to the
\* current value of the marker source; no operation moves the marker
\* backwards and no failed operation changes it.
C11_ChangeNotification ==
    /\ (last.op \in NotifyingOps /\ Succeeded)
        => multisig.last_config_change_marker = last.marker
    /\ last.op \in ConfigOps
        => multisig.last_config_change_marker >= last.pre.last_config_change_marker
    /\ (last.op \in ConfigOps /\ ~Succeeded)
        => multisig.last_config_change_marker = last.pre.last_config_change_marker

\* a time-lock change moved the marker forward
C11_Witness ==
    /\ Called("set_time_lock") /\ Succeeded
    /\ multisig.last_config_change_marker > last.pre.last_config_change_marker

\* C12: a successful Add Vault changes vault_index and nothing else: the
\* change marker, members, threshold, time_lock, config_authority and the
\* storage are as before.
C12_AddVaultFrame ==
    (Called("add_vault") /\ Succeeded)
        => /\ multisig = [last.pre EXCEPT !.vault_index = last.arg]
           /\ data_len = last.pre_len

\* a vault was added while the record's marker was behind the marker source
C12_Witness ==
    /\ Called("add_vault") /\ Succeeded
    /\ last.marker > last.pre.last_config_change_marker
    /\ multisig.vault_index # last.pre.vault_index

PcOps == {"set_authority", "set_multisig_creation_fee", "set_treasury"}

PcWritten ==
    IF last_pc.op = "set_authority"
    THEN [last_pc.pre EXCEPT !.authority = last_pc.arg]
    ELSE IF last_pc.op = "set_multisig_creation_fee"
    THEN [last_pc.pre EXCEPT !.multisig_creation_fee = last_pc.arg]
    ELSE [last_pc.pre EXCEPT !.treasury = last_pc.arg]

\* C13: Set Authority, Set Creation Fee and Set Treasury fail with
\* Unauthorized and change nothing when the caller is not the current
\* authority; otherwise they succeed, overwrite their own field with the
\* supplied value and leave the other two fields unchanged.
C13_GlobalOperations ==
    last_pc.op \in PcOps
        => IF last_pc.caller # last_pc.pre.authority
           THEN last_pc.result = "Unauthorized" /\ program_config = last_pc.pre
           ELSE last_pc.result = "Ok" /\ program_config = PcWritten

\* the authority replaced the treasury
C13_Witness ==
    /\ last_pc.op = "set_treasury" /\ last_pc.result = "Ok"
    /\ program_config.treasury # last_pc.pre.treasury

\* C14: the account data always has room for the members of the record; a
\* successful Add Member reports a resize exactly when the data had no room
\* for one more member, and leaves every logical field but members and the
\* change marker as it was.
C14_CapacityCoversRecord ==
    /\ data_len >= Len(multisig.members)
    /\ (Called("add_member") /\ Succeeded)
        => /\ last.reallocated = (last.pre_len < Len(last.pre.members) + 1)
           /\ multisig = [last.pre EXCEPT
                             !.members = Append(@, last.arg),
                             !.last_config_change_marker = last.marker]

\* the data fitted exactly the members, the add resized and appended
C14_Witness ==
    /\ Called("add_member") /\ Succeeded
    /\ last.pre_len = Len(last.pre.members)
    /\ last.reallocated
    /\ data_len = Len(multisig.members)

\* C15: vault_index never decreases, changes only through a successful Add
\* Vault, and each change adds exactly one.
C15_VaultIndexMonotone ==
    last.op \in ConfigOps
        => /\ multisig.vault_index >= last.pre.vault_index
           /\ multisig.vault_index # last.pre.vault_index
                => /\ Called("add_vault") /\ Succeeded
                   /\ multisig.vault_index = last.pre.vault_index + 1

\* C16: at vault_index = 255 Add Vault fails for every supplied index and
\* vault_index stays 255.
C16_NoWrapAtLimit ==
    (Called("add_vault") /\ last.pre.vault_index = U8Max)
        => (~Succeeded /\ multisig.vault_index = U8Max)

\* C17: an authorized Set Config Authority succeeds for every new value and
\* the stored value decides the gate from the next operation on: a caller
\* other than the stored authority gets Unauthorized, the stored authority
\* passes; once the stored value is the zero identity every direct
\* operation fails, for every caller, and leaves the record, the zero
\* authority included, as it was.
C17_HandOver ==
    /\ (Called("set_config_authority") /\ Authorized)
        => (Succeeded /\ multisig.config_authority = last.arg)
    /\ last.op \in ConfigOps
        => (last.result = "Unauthorized" <=> ~Authorized)
    /\ (last.op \in ConfigOps /\ last.pre.config_authority = ZeroKey)
        => /\ ~Succeeded
           /\ multisig = last.pre
           /\ multisig.config_authority = ZeroKey

\* after the hand-over to the zero identity the former authority was refused
C17_Witness ==
    /\ last.op \in ConfigOps
    /\ multisig.config_authority = ZeroKey
    /\ last.pre.config_authority = ZeroKey
    /\ last.caller = "A"
    /\ last.result = "Unauthorized"

\* C18: at every point exactly the identity stored in `authority` can
\* mutate the global record: a call succeeds if and only if its caller is
\* the stored authority, a successful Set Authority stores the new
\* authority at once, and fee and treasury change only to a value supplied
\* by the authority of the moment.
C18_GlobalHandOver ==
    last_pc.op \in PcOps
        => /\ (last_pc.result = "Ok") <=> (last_pc.caller = last_pc.pre.authority)
           /\ (last_pc.result # "Ok") => last_pc.result = "Unauthorized"
           /\ (last_pc.op = "set_authority" /\ last_pc.result = "Ok")
                => program_config.authority = last_pc.arg
           /\ program_config # last_pc.pre
                => last_pc.caller = last_pc.pre.authority
           /\ program_config.multisig_creation_fee # last_pc.pre.multisig_creation_fee
                => /\ last_pc.op = "set_multisig_creation_fee"
                   /\ last_pc.caller = last_pc.pre.authority
                   /\ program_config.multisig_creation_fee = last_pc.arg
           /\ program_config.treasury # last_pc.pre.treasury
                => /\ last_pc.op = "set_treasury"
                   /\ last_pc.caller = last_pc.pre.authority
                   /\ program_config.treasury = last_pc.arg

\* authority was handed from A to B, then A was refused
C18_Witness ==
    /\ last_pc.op \in PcOps
    /\ last_pc.pre.authority = "B"
    /\ last_pc.caller = "A"
    /\ last_pc.result = "Unauthorized"

\* C19: an authorized Set Time-Lock or Set Config Authority succeeds for
\* every argument and changes only its own field and the change marker.
C19_SetterFrames ==
    /\ (Called("set_time_lock") /\ Authorized)
        => /\ Succeeded
           /\ multisig = [last.pre EXCEPT
                             !.time_lock = last.arg,
                             !.last_config_change_marker = last.marker]
           /\ data_len = last.pre_len
    /\ (Called("set_config_authority") /\ Authorized)
        => /\ Succeeded
           /\ multisig = [last.pre EXCEPT
                             !.config_authority = last.arg,
                             !.last_config_change_marker = last.marker]
           /\ data_len = last.pre_len

\* the authority set a non-zero time lock
C19_Witness ==
    /\ Called("set_time_lock") /\ Authorized
    /\ last.arg > 0 /\ last.pre.time_lock = 0

\* C20: an authorized Remove Member on a single-member record fails with
\* RemoveLastMember also when old_member is not a member; on a record with
\* two or more members an absent old_member fails with MemberNotFound and
\* members and threshold are unchanged.
C20_RemoveCheckOrder ==
    (Called("remove_member") /\ Authorized)
        => /\ Len(last.pre.members) = 1 => last.result = "RemoveLastMember"
           /\ (/\ Len(last.pre.members) >= 2
               /\ last.arg \notin KeysOf(last.pre.members))
                => /\ last.result = "MemberNotFound"
                   /\ multisig.members = last.pre.members
                   /\ multisig.threshold = last.pre.threshold

\* the authority named a stranger on a single-member record
C20_Witness ==
    /\ Called("remove_member") /\ Authorized
    /\ Len(last.pre.members) = 1
    /\ last.arg \notin KeysOf(last.pre.members)
    /\ last.result = "RemoveLastMember"

====
